---- MODULE Spec2Model ----
(***************************************************************************)
(* A state-machine model of paysage's TAP_rbm (models/tap_machine.py):     *)
(* the constructor, the backtracking descent loops of gibbs_free_energy    *)
(* and heat_capacity, and the persistent-sample pool handled by gradient.  *)
(*                                                                         *)
(* Numbers.  A magnetization has one visible and one hidden component,     *)
(* each an integer number of 1e-7 (ONE = 1.0, EPS = 1e-6).  A learning     *)
(* rate is the exact fraction num/den in units of 1e-10, so halving is     *)
(* exact as it is in binary floating point.  The values of the Gamma and   *)
(* beta-beta functionals and the products lr*grad depend on the weights,   *)
(* the biases and on logarithms; they are drawn from GamVals and           *)
(* StepPairs at each evaluation, with the functional single-valued at the  *)
(* current point.                                                          *)
(***************************************************************************)
EXTENDS Integers, Sequences, FiniteSets, TLC

\* ---------------------------------------------------------------- bounds
MaxIters == 2
MaxPool == 2
MaxCalls == 2
\* the number of update calls of the metric between two resets
MaxUpdates == 2
\* the number of layer entries of a Gradient handed to gradient_util
MaxEntries == 2
\* the number of method calls made on one metric object
MaxOps == 4

\* ------------------------------------------------------ program constants
ONE == 10000000
EPS == 10
LrFloor == 1
EMFInit == 1000000
BestEMFInit == 10000000
SeedOffset == 50000
GridOne == 8
FnOne == 786432

None == <<>>

\* Magnetization(v, h)
Magnetization(v, h) == <<v, h>>

\* ------------------------------------------------------------ input sets
\* values of the terms argument / attribute
TermsArgs == {1, 2, 3, 4}
\* init_lr in units of 1e-10: 1e-10 and 0.1
InitLrs == {1, 1000000000}
Tols == {0, 2}
MaxItersArgs == {0, MaxIters}
\* (init_lr_EMF, tolerance_EMF, max_iters_EMF) given to the constructor
CtorConfigs == {<<1, 2, MaxIters>>, <<1000000000, 0, MaxIters>>}
\* pairs of draws of be.rand, each in [0, 1)
RandPairs == {<<0, ONE - 1>>}
\* caller-supplied seeds, inside (0,1) and next to its ends
ExtSeeds == {Magnetization(ONE - 1, 1)}
\* values of lr*grad_v, lr*grad_h
StepPairs == {<<0, 0>>, <<ONE, 0 - ONE>>, <<0 - ONE, ONE>>}
\* values of the functional
GamVals == {0, 1, BestEMFInit}
\* the parameters (w, a, b) of a model of one visible and one hidden unit
Params(pw, pa, pb) == <<pw, pa, pb>>
\* the parameters the model carries in the runs of the descent loops
CtorParams == {Params(2, 0 - 1, 1)}
\* the parameters the functionals are evaluated with
FnParams == {Params(pw, pa, pb) : pw \in {0 - 1, 0, 2}, pa \in {0 - 1, 0, 1},
                                  pb \in {0, 1}}

\* ------------------------------------------------------------- operators
\* a check of terms that lets every positive order through
terms_positive(t) == t >= 1

\* if terms != 1 and terms != 2 and terms != 3: raise ValueError
ValidTerms(t) == ~(t # 1 /\ t # 2 /\ t # 3)

\* each order minimizing its own functional
gamma_by_order(t) == IF t = 1 THEN "gamma_MF"
                     ELSE IF t = 2 THEN "gamma_TAP2"
                     ELSE IF t = 3 THEN "gamma_TAP3"
                     ELSE "unbound"

\* the scalar functional selected by minimize_gamma_GD
GammaFor(t) == IF t = 1 THEN "gamma_MF"
               ELSE IF t = 2 THEN "gamma_TAP2"
               ELSE IF t = 3 THEN "gamma_MF"
               ELSE "unbound"

\* the gradient pair selected by minimize_gamma_GD
GradFor(t) == IF t = 1 THEN "grad_gamma_MF"
              ELSE IF t = 2 THEN "grad_gamma_TAP2"
              ELSE IF t = 3 THEN "grad_gamma_TAP3"
              ELSE "unbound"

\* grad_w_gamma selected by gradient
GradWFor(t) == IF t = 1 THEN "grad_w_gamma_MF"
               ELSE IF t = 2 THEN "grad_w_gamma_TAP2"
               ELSE IF t = 3 THEN "grad_w_gamma_TAP3"
               ELSE "unbound"

\* rand, unscaled
seed_unscaled(r) == r

\* 0.99 * rand + 0.005
SeedComponent(r) == (99 * r) \div 100 + SeedOffset

RandomSeed(rp) == Magnetization(SeedComponent(rp[1]), SeedComponent(rp[2]))

\* a clip that does nothing
clip_nothing(x, lo, hi) == x

\* a clip with the lower bound only
clip_lower_only(x, lo, hi) == IF x < lo THEN lo ELSE x

\* be.clip_inplace(x, lo, hi)
clip_inplace(x, lo, hi) == IF x < lo THEN lo ELSE IF x > hi THEN hi ELSE x

\* Magnetization(m.v - lr*grad_v, m.h - lr*grad_h), clipped to [eps, 1-eps]
Provisional(mm, st) ==
    Magnetization(clip_inplace(mm[1] - st[1], EPS, ONE - EPS),
                  clip_inplace(mm[2] - st[2], EPS, ONE - EPS))

InitLr(n) == <<n, 1>>
\* lr *= 0.25
quarter(l) == <<l[1], 4 * l[2]>>
\* lr *= 0.5
Halve(l) == <<l[1], 2 * l[2]>>
\* lr < 1e-10
BelowFloor(l) == l[1] < LrFloor * l[2]

\* minimize_gamma_GD with the descent test inverted: an ascent is accepted
body_accepts_ascent(cm, cgam, clr, mp, gp, ctol) ==
    IF cgam - gp > 0
    THEN [m |-> cm, gam |-> cgam, lr |-> Halve(clr),
          brk |-> BelowFloor(Halve(clr)), branch |-> "halve"]
    ELSE IF cgam - gp = 0
    THEN [m |-> cm, gam |-> cgam, lr |-> clr, brk |-> TRUE, branch |-> "stop"]
    ELSE [m |-> mp, gam |-> gp, lr |-> clr, brk |-> FALSE, branch |-> "accept"]

\* minimize_gamma_GD adopting the provisional point when it converges
body_adopts_on_stop(cm, cgam, clr, mp, gp, ctol) ==
    IF cgam - gp < 0
    THEN [m |-> cm, gam |-> cgam, lr |-> Halve(clr),
          brk |-> BelowFloor(Halve(clr)), branch |-> "halve"]
    ELSE IF cgam - gp < ctol
    THEN [m |-> mp, gam |-> gp, lr |-> clr, brk |-> TRUE, branch |-> "stop"]
    ELSE [m |-> mp, gam |-> gp, lr |-> clr, brk |-> FALSE, branch |-> "accept"]

\* minimize_gamma_GD with a non-strict first test: equal values halve lr
body_equal_halves(cm, cgam, clr, mp, gp, ctol) ==
    IF cgam - gp <= 0
    THEN [m |-> cm, gam |-> cgam, lr |-> Halve(clr),
          brk |-> BelowFloor(Halve(clr)), branch |-> "halve"]
    ELSE IF cgam - gp < ctol
    THEN [m |-> cm, gam |-> cgam, lr |-> clr, brk |-> TRUE, branch |-> "stop"]
    ELSE [m |-> mp, gam |-> gp, lr |-> clr, brk |-> FALSE, branch |-> "accept"]

\* minimize_gamma_GD stepping in place: a rejected point stays in m
body_moves_on_reject(cm, cgam, clr, mp, gp, ctol) ==
    IF cgam - gp < 0
    THEN [m |-> mp, gam |-> gp, lr |-> Halve(clr),
          brk |-> BelowFloor(Halve(clr)), branch |-> "halve"]
    ELSE IF cgam - gp < ctol
    THEN [m |-> cm, gam |-> cgam, lr |-> clr, brk |-> TRUE, branch |-> "stop"]
    ELSE [m |-> mp, gam |-> gp, lr |-> clr, brk |-> FALSE, branch |-> "accept"]

\* minimize_gamma_GD without its convergence test
body_never_converges(cm, cgam, clr, mp, gp, ctol) ==
    IF cgam - gp < 0
    THEN [m |-> cm, gam |-> cgam, lr |-> Halve(clr),
          brk |-> BelowFloor(Halve(clr)), branch |-> "halve"]
    ELSE [m |-> mp, gam |-> gp, lr |-> clr, brk |-> FALSE, branch |-> "accept"]

\* the body of the while loop of minimize_gamma_GD, after gam_provisional
minimize_gamma_GD_body(cm, cgam, clr, mp, gp, ctol) ==
    IF cgam - gp < 0
    THEN [m |-> cm, gam |-> cgam, lr |-> Halve(clr),
          brk |-> BelowFloor(Halve(clr)), branch |-> "halve"]
    ELSE IF cgam - gp < ctol
    THEN [m |-> cm, gam |-> cgam, lr |-> clr, brk |-> TRUE, branch |-> "stop"]
    ELSE [m |-> mp, gam |-> gp, lr |-> clr, brk |-> FALSE, branch |-> "accept"]

\* the body of the while loop of minimize_GD (heat_capacity)
minimize_GD_body(cm, cgam, clr, mp, gp, ctol) ==
    IF cgam - gp < 0
    THEN [m |-> cm, gam |-> cgam, lr |-> Halve(clr),
          brk |-> BelowFloor(Halve(clr)), branch |-> "halve"]
    ELSE IF cgam - gp < ctol
    THEN [m |-> cm, gam |-> cgam, lr |-> clr, brk |-> TRUE, branch |-> "stop"]
    ELSE [m |-> mp, gam |-> gp, lr |-> clr, brk |-> FALSE, branch |-> "accept"]

\* a loop test that lets one more iteration through
guard_inclusive(i, mx) == i <= mx

\* while (its < max_iters)
LoopGuard(i, mx) == i < mx

\* a store that always writes the first slot
store_first_slot(pool, i, mres) == [pool EXCEPT ![1] = mres]

\* a store that grows the pool
store_appends(pool, i, mres) == Append(pool, mres)

\* (self.persistent_samples[s], EMF) = ...
SlotStore(pool, i, mres) == [pool EXCEPT ![i] = mres]

\* if EMF < best_EMF
Better(e, best) == e < best

\* ------------------------------------------------------------------ state
VARIABLES
    pc,                 \* position of the running call, "idle" between calls
    caller,             \* who runs the minimizer: "user" or "gradient"
    terms,              \* self.terms
    init_lr_EMF,        \* self.init_lr_EMF
    tolerance_EMF,      \* self.tolerance_EMF
    max_iters_EMF,      \* self.max_iters_EMF
    persistent_samples, \* self.persistent_samples
    num_persistent_samples, \* __init__: the num_persistent_samples argument
    w,                  \* self.weights[0].params.matrix (one entry)
    a,                  \* self.layers[0].params.loc (one entry)
    b,                  \* self.layers[1].params.loc (one entry)
    s,                  \* gradient: loop index (1-based), 0 with an empty pool
    EMF,                \* gradient: EMF
    best_EMF,           \* gradient: best_EMF
    gm,                 \* gradient: m
    grad_w_gamma,       \* gradient: grad_w_gamma
    terms_arg,          \* gibbs_free_energy: the terms argument
    gamma,              \* minimizer: the selected functional
    grad_gamma,         \* minimizer: the selected gradient pair
    m,                  \* minimizer: m
    gam,                \* minimizer: gam
    lr,                 \* minimizer: lr
    its,                \* minimizer: its
    tol,                \* minimizer: tol
    max_iters,          \* minimizer: max_iters
    m_provisional,      \* minimizer: m_provisional
    gam_provisional,    \* minimizer: gam_provisional
    ret,                \* what the last call returned or raised
    branch,             \* history: branch taken by the last loop iteration
    rejected,           \* history: iterations of this call that halved lr
    lowest,             \* history: lowest functional value seen in this call
    emfs,               \* history: the EMF of each slot in this gradient call
    chain,              \* history: minimizations stored per slot
    gcalls,             \* history: gradient calls that passed validation
    heat_capacity,      \* HeatCapacity: self.heat_capacity
    updates,            \* history: what each update added since the last reset
    metric,             \* a metric object of any class: its attributes
    history,            \* history: the methods called on metric, in order
    twin,               \* minimize_GD run beside minimize_gamma_GD: its locals
    race                \* gradient calls run as threads: frames and ghosts

vars == <<pc, caller, terms, init_lr_EMF, tolerance_EMF, max_iters_EMF,
          persistent_samples, num_persistent_samples, s, EMF,
          best_EMF, gm, grad_w_gamma, terms_arg, gamma, grad_gamma, m,
          gam, lr, its, tol, max_iters, m_provisional, gam_provisional, ret,
          branch, emfs, chain, gcalls, w, a, b, rejected, lowest,
          heat_capacity, updates, metric, history, twin, race>>

model_vars == <<terms, init_lr_EMF, tolerance_EMF, max_iters_EMF,
                num_persistent_samples, w, a, b>>
gradient_locals == <<s, EMF, best_EMF, gm, grad_w_gamma, emfs>>
minimizer_locals == <<terms_arg, gamma, grad_gamma, m, gam, lr, its, tol,
                      max_iters, m_provisional, gam_provisional, branch,
                      rejected, lowest>>
history_vars == <<chain, gcalls>>
metric_vars == <<heat_capacity, updates>>
object_vars == <<metric, history>>
\* what only the specifications of a single routine use
bench_vars == <<object_vars, twin, race>>

NoGradientLocals ==
    /\ s' = 0 /\ EMF' = 0 /\ best_EMF' = 0 /\ gm' = None
    /\ grad_w_gamma' = "unbound" /\ emfs' = <<>>

NoMinimizerLocals ==
    /\ terms_arg' = 0
    /\ gamma' = "unbound" /\ grad_gamma' = "unbound"
    /\ m' = None /\ gam' = 0 /\ lr' = <<0, 1>> /\ its' = 0 /\ tol' = 0
    /\ max_iters' = 0 /\ m_provisional' = None /\ gam_provisional' = 0
    /\ branch' = "none" /\ rejected' = 0 /\ lowest' = 0

\* TAP_rbm.__init__(model_layers, init_lr_EMF, tolerance_EMF, max_iters_EMF,
\* num_persistent_samples, terms) on layers and weights that carry p
TAP_rbm(t, n, cf, p) ==
    /\ init_lr_EMF = cf[1]
    /\ tolerance_EMF = cf[2]
    /\ max_iters_EMF = cf[3]
    /\ persistent_samples = [i \in 1..n |-> None]
    /\ num_persistent_samples = n
    /\ w = p[1] /\ a = p[2] /\ b = p[3]
    /\ IF ValidTerms(t)
       THEN /\ terms = t
            /\ pc = "idle"
            /\ ret = [kind |-> "TAP_rbm", terms |-> t]
       ELSE /\ terms = 0
            /\ pc = "no_object"
            /\ ret = [kind |-> "ValueError", terms |-> t]
    /\ caller = "none"
    /\ s = 0 /\ EMF = 0 /\ best_EMF = 0 /\ gm = None
    /\ grad_w_gamma = "unbound" /\ emfs = <<>>
    /\ terms_arg = 0
    /\ gamma = "unbound" /\ grad_gamma = "unbound"
    /\ m = None /\ gam = 0 /\ lr = <<0, 1>> /\ its = 0 /\ tol = 0
    /\ max_iters = 0 /\ m_provisional = None /\ gam_provisional = 0
    /\ branch = "none" /\ rejected = 0 /\ lowest = 0
    /\ chain = [i \in 1..n |-> 0]
    /\ gcalls = 0

\* HeatCapacity.__init__
HeatCapacity ==
    /\ heat_capacity = 0
    /\ updates = <<>>

\* no metric object of another class, no second loop, no threads
NoBench ==
    /\ metric = None /\ history = <<>>
    /\ twin = None
    /\ race = None

Init ==
    /\ \E t \in TermsArgs, n \in 0..MaxPool, cf \in CtorConfigs, p \in CtorParams :
           TAP_rbm(t, n, cf, p)
    /\ HeatCapacity
    /\ NoBench

\* ---------------------------------------------------------------- actions
\* rbm.terms = t: the attribute set by __init__ is an ordinary attribute
set_terms ==
    /\ pc = "idle"
    /\ \E t \in TermsArgs : terms' = t
    /\ ret' = [kind |-> "None"]
    /\ UNCHANGED <<pc, caller, init_lr_EMF, tolerance_EMF, max_iters_EMF,
                   persistent_samples, num_persistent_samples, w, a, b>>
    /\ UNCHANGED <<gradient_locals, minimizer_locals, history_vars>>
    /\ UNCHANGED <<metric_vars, bench_vars>>

\* gam = gamma(m): the functional is a function of m and of the parameters,
\* so on the magnetization gibbs_free_energy has just returned, with terms
\* and the parameters as they were, it gives the value returned with it
gamma_at(mm, g) == (ret.kind = "tuple" /\ ret.m = mm) => g = ret.gam

\* gibbs_free_energy up to the first test of the while loop: the check of
\* terms, the random seed, the selection of the functional, gam = gamma(m)
GibbsEnter(sd, il, tl, mx, t, who) ==
    /\ terms_arg' = t
    /\ caller' = who
    /\ IF who = "user" THEN NoGradientLocals ELSE UNCHANGED gradient_locals
    /\ IF ~ValidTerms(t)
       THEN /\ pc' = "raise"
            /\ ret' = [kind |-> "ValueError", terms |-> t]
            /\ UNCHANGED <<gamma, grad_gamma, m, gam, lr, its, tol,
                           max_iters, m_provisional, gam_provisional, branch,
                           rejected, lowest>>
       ELSE /\ pc' = "gd_loop"
            /\ ret' = [kind |-> "running"]
            /\ \E rp \in RandPairs :
                   m' = IF sd = None THEN RandomSeed(rp) ELSE sd
            /\ gamma' = GammaFor(t)
            /\ grad_gamma' = GradFor(t)
            /\ its' = 0
            /\ lr' = InitLr(il)
            /\ tol' = tl
            /\ max_iters' = mx
            /\ \E g \in GamVals : gamma_at(m', g) /\ gam' = g /\ lowest' = g
            /\ m_provisional' = None
            /\ gam_provisional' = 0
            /\ branch' = "none"
            /\ rejected' = 0

\* the ValueError leaves gibbs_free_energy and its caller
raise_propagate ==
    /\ pc = "raise"
    /\ pc' = "idle"
    /\ caller' = "none"
    /\ NoGradientLocals
    /\ NoMinimizerLocals
    /\ UNCHANGED <<model_vars, persistent_samples, ret, history_vars>>
    /\ UNCHANGED <<metric_vars, bench_vars>>

\* gibbs_free_energy(seed, init_lr, tol, max_iters, terms) called directly
gibbs_free_energy_call ==
    /\ pc = "idle"
    /\ \E sd \in {None} \cup ExtSeeds
                 \cup {persistent_samples[i] : i \in 1..Len(persistent_samples)},
          il \in InitLrs, tl \in Tols, mx \in MaxItersArgs,
          t \in {terms} \cup (TermsArgs \ {1, 2, 3}) :
            GibbsEnter(sd, il, tl, mx, t, "user")
    /\ UNCHANGED <<model_vars, persistent_samples, history_vars>>
    /\ UNCHANGED <<metric_vars, bench_vars>>

\* one iteration of the while loop of minimize_gamma_GD
minimize_gamma_GD_iter ==
    /\ pc = "gd_loop"
    /\ LoopGuard(its, max_iters)
    /\ its' = its + 1
    /\ \E st \in StepPairs, gp \in GamVals :
        LET mp == Provisional(m, st)
            r == minimize_gamma_GD_body(m, gam, lr, mp, gp, tol)
        IN /\ (mp = m => gp = gam)
           /\ m_provisional' = mp
           /\ gam_provisional' = gp
           /\ m' = r.m
           /\ gam' = r.gam
           /\ lr' = r.lr
           /\ branch' = r.branch
           /\ rejected' = IF r.branch = "halve" THEN rejected + 1 ELSE rejected
           /\ lowest' = IF gp < lowest THEN gp ELSE lowest
           /\ pc' = IF r.brk THEN "gd_done" ELSE "gd_loop"
    /\ UNCHANGED <<caller, model_vars, persistent_samples, gradient_locals,
                   terms_arg, gamma, grad_gamma, tol, max_iters, ret,
                   history_vars>>
    /\ UNCHANGED <<metric_vars, bench_vars>>

\* the while condition of minimize_gamma_GD is false
minimize_gamma_GD_exit ==
    /\ pc = "gd_loop"
    /\ ~LoopGuard(its, max_iters)
    /\ pc' = "gd_done"
    /\ UNCHANGED <<caller, model_vars, persistent_samples, gradient_locals,
                   minimizer_locals, ret, history_vars>>
    /\ UNCHANGED <<metric_vars, bench_vars>>

\* return (m, gam) to a direct caller
gibbs_free_energy_return ==
    /\ pc = "gd_done"
    /\ caller = "user"
    /\ ret' = [kind |-> "tuple", m |-> m, gam |-> gam]
    /\ pc' = "idle"
    /\ caller' = "none"
    /\ NoMinimizerLocals
    /\ UNCHANGED <<model_vars, persistent_samples, gradient_locals,
                   history_vars>>
    /\ UNCHANGED <<metric_vars, bench_vars>>

\* gradient up to the first call of gibbs_free_energy
gradient_call ==
    /\ pc = "idle"
    /\ gcalls < MaxCalls
    /\ grad_w_gamma' = GradWFor(terms)
    /\ EMF' = EMFInit
    /\ gm' = None
    /\ IF Len(persistent_samples) = 0
       THEN s' = 0 /\ best_EMF' = 0
       ELSE s' = 1 /\ best_EMF' = BestEMFInit
    /\ pc' = "g_call"
    /\ caller' = "gradient"
    /\ emfs' = <<>>
    /\ ret' = [kind |-> "running"]
    /\ UNCHANGED <<model_vars, persistent_samples, minimizer_locals, chain,
                   gcalls>>
    /\ UNCHANGED <<metric_vars, bench_vars>>

\* gradient calls gibbs_free_energy, seeded with None or with slot s
gradient_minimize ==
    /\ pc = "g_call"
    /\ GibbsEnter(IF s = 0 THEN None ELSE persistent_samples[s],
                  init_lr_EMF, tolerance_EMF, max_iters_EMF, terms, "gradient")
    /\ gcalls' = IF ValidTerms(terms) /\ s <= 1 THEN gcalls + 1 ELSE gcalls
    /\ UNCHANGED <<model_vars, persistent_samples, chain>>
    /\ UNCHANGED <<metric_vars, bench_vars>>

\* gradient takes the result of gibbs_free_energy
gradient_store ==
    /\ pc = "gd_done"
    /\ caller = "gradient"
    /\ EMF' = gam
    /\ emfs' = Append(emfs, gam)
    /\ IF s = 0
       THEN /\ gm' = m
            /\ pc' = "g_grad"
            /\ UNCHANGED <<persistent_samples, best_EMF, s, chain>>
       ELSE /\ persistent_samples' = SlotStore(persistent_samples, s, m)
            /\ chain' = [chain EXCEPT ![s] = @ + 1]
            /\ IF Better(gam, best_EMF)
               THEN best_EMF' = gam /\ gm' = persistent_samples'[s]
               ELSE UNCHANGED <<best_EMF, gm>>
            /\ s' = s + 1
            /\ pc' = IF s < Len(persistent_samples) THEN "g_call" ELSE "g_grad"
    /\ NoMinimizerLocals
    /\ UNCHANGED <<caller, model_vars, grad_w_gamma, ret, gcalls>>
    /\ UNCHANGED <<metric_vars, bench_vars>>

\* self.layers and self.weights of the two-layer model
Layers == <<"visible", "hidden">>
Weights == <<"visible-hidden">>

\* layers.ParamsBernoulli(loc), layers.ParamsWeights(matrix)
ParamsBernoulli(loc) == [type |-> "ParamsBernoulli", loc |-> loc]
ParamsWeights(matrix) == [type |-> "ParamsWeights", matrix |-> matrix]

\* the sum of a minibatch mean (da, db or dw, named) and a model-side term
Plus(mean, term) == [mean |-> mean, plus |-> term]

\* grad_a_gamma(m, w, a, b), grad_b_gamma(m, w, a, b)
grad_a_gamma(mm, pw, pa, pb) == 0 - mm[1]
grad_b_gamma(mm, pw, pa, pb) == 0 - mm[2]

\* gu.Gradient([None for l in self.layers], [None for w in self.weights])
\* and the three assignments that follow it
AssembleGradient(dw_EMF, da_EMF, db_EMF) ==
    LET grad == [layers |-> [l \in 1..Len(Layers) |-> None],
                 weights |-> [k \in 1..Len(Weights) |-> None]]
        grad1 == [grad EXCEPT !.weights[1] = ParamsWeights(Plus("dw", dw_EMF))]
        grad2 == [grad1 EXCEPT !.layers[1] = ParamsBernoulli(Plus("da", da_EMF))]
    IN [grad2 EXCEPT !.layers[2] = ParamsBernoulli(Plus("db", db_EMF))]

\* what gradient returns or raises: m.v of None is an AttributeError
GradientResult ==
    IF gm = None
    THEN [kind |-> "AttributeError"]
    ELSE [kind |-> "Gradient", m |-> gm,
          grad |-> AssembleGradient([fn |-> grad_w_gamma, m |-> gm, w |-> w],
                                    grad_a_gamma(gm, w, a, b),
                                    grad_b_gamma(gm, w, a, b))]

\* gradient adding db_EMF into the hidden bias of the model in place
gradient_finish_in_place ==
    /\ pc = "g_grad"
    /\ ret' = GradientResult
    /\ b' = IF gm = None THEN b ELSE b + grad_b_gamma(gm, w, a, b)
    /\ pc' = "idle"
    /\ caller' = "none"
    /\ NoGradientLocals
    /\ UNCHANGED <<terms, init_lr_EMF, tolerance_EMF, max_iters_EMF,
                   num_persistent_samples, w, a, persistent_samples,
                   minimizer_locals, history_vars>>
    /\ UNCHANGED <<metric_vars, bench_vars>>

\* gradient from dw_EMF = grad_w_gamma(m,w,a,b) to return grad
gradient_finish ==
    /\ pc = "g_grad"
    /\ ret' = GradientResult
    /\ pc' = "idle"
    /\ caller' = "none"
    /\ NoGradientLocals
    /\ UNCHANGED <<model_vars, persistent_samples, minimizer_locals,
                   history_vars>>
    /\ UNCHANGED <<metric_vars, bench_vars>>

\* heat_capacity(seed, init_lr, tol, max_iters) up to the first loop test
HeatCapacityEnter(sd, il, tl, mx, who) ==
    /\ \E rp \in RandPairs : m' = IF sd = None THEN RandomSeed(rp) ELSE sd
    /\ lr' = InitLr(il)
    /\ tol' = tl
    /\ max_iters' = mx
    /\ terms_arg' = 0
    /\ gamma' = "grad_beta_beta_TAP3"
    /\ grad_gamma' = "grad_heat"
    /\ its' = 0
    /\ \E g \in GamVals : gam' = g /\ lowest' = g
    /\ m_provisional' = None
    /\ gam_provisional' = 0
    /\ branch' = "none"
    /\ rejected' = 0
    /\ pc' = "hc_loop"
    /\ caller' = who
    /\ ret' = [kind |-> "running"]
    /\ UNCHANGED <<model_vars, persistent_samples, gradient_locals,
                   history_vars>>

\* rbm.heat_capacity(seed, init_lr, tol, max_iters) called directly
heat_capacity_call ==
    /\ pc = "idle"
    /\ \E sd \in {None} \cup ExtSeeds
                 \cup {persistent_samples[i] : i \in 1..Len(persistent_samples)},
          il \in InitLrs, tl \in Tols, mx \in MaxItersArgs :
            HeatCapacityEnter(sd, il, tl, mx, "user")
    /\ UNCHANGED <<metric_vars, bench_vars>>

\* one iteration of the while loop of minimize_GD
minimize_GD_iter ==
    /\ pc = "hc_loop"
    /\ LoopGuard(its, max_iters)
    /\ its' = its + 1
    /\ \E st \in StepPairs, gp \in GamVals :
        LET mp == Provisional(m, st)
            r == minimize_GD_body(m, gam, lr, mp, gp, tol)
        IN /\ (mp = m => gp = gam)
           /\ m_provisional' = mp
           /\ gam_provisional' = gp
           /\ m' = r.m
           /\ gam' = r.gam
           /\ lr' = r.lr
           /\ branch' = r.branch
           /\ rejected' = IF r.branch = "halve" THEN rejected + 1 ELSE rejected
           /\ lowest' = IF gp < lowest THEN gp ELSE lowest
           /\ pc' = IF r.brk THEN "hc_done" ELSE "hc_loop"
    /\ UNCHANGED <<caller, model_vars, persistent_samples, gradient_locals,
                   terms_arg, gamma, grad_gamma, tol, max_iters, ret,
                   history_vars>>
    /\ UNCHANGED <<metric_vars, bench_vars>>

\* minimize_GD(...), the sign kept
not_negated(x) == x

\* -minimize_GD(...)
Negative(x) == 0 - x

\* the while condition of minimize_GD is false
minimize_GD_exit ==
    /\ pc = "hc_loop"
    /\ ~LoopGuard(its, max_iters)
    /\ pc' = "hc_done"
    /\ UNCHANGED <<caller, model_vars, persistent_samples, gradient_locals,
                   minimizer_locals, ret, history_vars>>
    /\ UNCHANGED <<metric_vars, bench_vars>>

\* return -minimize_GD(...)
heat_capacity_return ==
    /\ pc = "hc_done"
    /\ caller = "user"
    /\ ret' = [kind |-> "float", fn |-> "heat_capacity",
                value |-> Negative(gam)]
    /\ pc' = "idle"
    /\ caller' = "none"
    /\ NoMinimizerLocals
    /\ UNCHANGED <<model_vars, persistent_samples, gradient_locals,
                   history_vars>>
    /\ UNCHANGED <<metric_vars, bench_vars>>

\* ------------------------------------------------- the functional family
\* The functionals and their gradients are evaluated for a model of one
\* visible and one hidden unit on magnetizations whose components are whole
\* eighths (GridOne = 1.0); values are in units of 1/FnOne, the least unit
\* in which every polynomial term of the three orders is a whole number.
\* be.log is its table on the eighths, rounded to that unit.
\* the magnetizations the calls are made on: both neighbours of each
\* component are eighths inside (0,1) too
GridMags == {Magnetization(i, j) : i, j \in 2..(GridOne - 2)}

\* be.log(x) for x = 1/8 .. 7/8
LogTab == <<0 - 1635339, 0 - 1090226, 0 - 771356, 0 - 545113,
            0 - 369626, 0 - 226242, 0 - 105013>>
be_log(x) == LogTab[x]

\* be.multiply(x, be.log(x)) + be.multiply(1.0 - x, be.log(1.0 - x))
Entropy(x) ==
    (x * be_log(x)) \div GridOne + ((GridOne - x) * be_log(GridOne - x)) \div GridOne

\* x - be.square(x), in units of 1/64
Quad(x) == x * (GridOne - x)
\* be.multiply(0.5 - x, x - be.square(x)), in units of 1/512
Cubic(x) == (GridOne \div 2 - x) * Quad(x)

\* be.dot(p, x) for a bias p and a component x
BiasDot(p, x) == p * x * (FnOne \div GridOne)
\* be.dot(m.v, a + be.dot(w, m.h))
Coupling(mm) ==
    BiasDot(a, mm[1]) + w * mm[1] * mm[2] * (FnOne \div (GridOne * GridOne))
\* 0.5 * be.dot(m_v_quad, be.dot(ww, m_h_quad))
Onsager(mm) == (w * w * Quad(mm[1]) * Quad(mm[2]) * (FnOne \div 4096)) \div 2
\* (4.0/3.0) * be.tsum(be.multiply(alias2, be.multiply(alias1, www)))
ThirdOrder(mm) ==
    (4 * (w * w * w) * Cubic(mm[1]) * Cubic(mm[2]) * (FnOne \div 262144)) \div 3

\* gamma_MF(self, m)
gamma_MF(mm) ==
    Entropy(mm[1]) + Entropy(mm[2])
        - BiasDot(a, mm[1]) - BiasDot(b, mm[2]) - Coupling(mm)

\* gamma_TAP2(self, m)
gamma_TAP2(mm) ==
    Entropy(mm[1]) + Entropy(mm[2])
        - BiasDot(b, mm[2]) - Coupling(mm) - Onsager(mm)

\* gamma_TAP3(self, m)
gamma_TAP3(mm) ==
    Entropy(mm[1]) + Entropy(mm[2])
        - BiasDot(b, mm[2]) - Coupling(mm) - Onsager(mm) - ThirdOrder(mm)

\* be.log(be.divide(1.0 - x, x))
LogOdds(x) == be_log(GridOne - x) - be_log(x)
\* be.multiply(0.5 - x, be.dot(ww, y_quad))
OnsagerGrad(pw, x, y) ==
    (GridOne \div 2 - x) * pw * pw * Quad(y) * (FnOne \div 512)
\* (4.0/3.0) * be.multiply(0.5 - 3.0*x + 3.0*be.square(x),
\*                         be.dot(www, be.multiply(0.5 - y, y_quad)))
ThirdOrderGrad(pw, x, y) ==
    (4 * (32 - 24 * x + 3 * x * x) * (pw * pw * pw) * Cubic(y)
       * (FnOne \div 32768)) \div 3

\* grad_v_gamma_MF(m, w, a), grad_h_gamma_MF(m, w, b)
grad_v_gamma_MF(mm, pw, pa) ==
    LogOdds(mm[1]) - pa * FnOne - pw * mm[2] * (FnOne \div GridOne)
grad_h_gamma_MF(mm, pw, pb) ==
    LogOdds(mm[2]) - pb * FnOne - mm[1] * pw * (FnOne \div GridOne)

\* grad_v_gamma_TAP2(m, w, a), grad_h_gamma_TAP2(m, w, b)
grad_v_gamma_TAP2(mm, pw, pa) ==
    LogOdds(mm[1]) - pa * FnOne - pw * mm[2] * (FnOne \div GridOne)
        - OnsagerGrad(pw, mm[1], mm[2])
grad_h_gamma_TAP2(mm, pw, pb) ==
    LogOdds(mm[2]) - pb * FnOne - mm[1] * pw * (FnOne \div GridOne)
        - OnsagerGrad(pw, mm[2], mm[1])

\* grad_v_gamma_TAP3(m, w, a), grad_h_gamma_TAP3(m, w, b)
grad_v_gamma_TAP3(mm, pw, pa) ==
    LogOdds(mm[1]) - pa * FnOne - pw * mm[2] * (FnOne \div GridOne)
        - OnsagerGrad(pw, mm[1], mm[2]) - ThirdOrderGrad(pw, mm[1], mm[2])
grad_h_gamma_TAP3(mm, pw, pb) ==
    LogOdds(mm[2]) - pb * FnOne - mm[1] * pw * (FnOne \div GridOne)
        - OnsagerGrad(pw, mm[2], mm[1]) - ThirdOrderGrad(pw, mm[2], mm[1])

\* a call that only returns a value leaves everything but ret
Returns(r) ==
    /\ pc = "idle"
    /\ ret' = r
    /\ UNCHANGED <<pc, caller, model_vars, persistent_samples, gradient_locals,
                   minimizer_locals, history_vars>>
    /\ UNCHANGED <<metric_vars, bench_vars>>

\* rbm.gamma_MF(m)
gamma_MF_call ==
    \E mm \in GridMags :
        Returns([kind |-> "float", fn |-> "gamma_MF", m |-> mm,
                 value |-> gamma_MF(mm)])

\* rbm.gamma_TAP2(m)
gamma_TAP2_call ==
    \E mm \in GridMags :
        Returns([kind |-> "float", fn |-> "gamma_TAP2", m |-> mm,
                 value |-> gamma_TAP2(mm)])

\* rbm.gamma_TAP3(m)
gamma_TAP3_call ==
    \E mm \in GridMags :
        Returns([kind |-> "float", fn |-> "gamma_TAP3", m |-> mm,
                 value |-> gamma_TAP3(mm)])

\* (grad_v_gamma_MF(m, w, a), grad_h_gamma_MF(m, w, b)) as minimize_gamma_GD
\* evaluates them
grad_gamma_MF_call ==
    \E mm \in GridMags :
        Returns([kind |-> "grad", fn |-> "grad_gamma_MF", m |-> mm,
                 v |-> grad_v_gamma_MF(mm, w, a),
                 h |-> grad_h_gamma_MF(mm, w, b)])

\* (grad_v_gamma_TAP2(m, w, a), grad_h_gamma_TAP2(m, w, b))
grad_gamma_TAP2_call ==
    \E mm \in GridMags :
        Returns([kind |-> "grad", fn |-> "grad_gamma_TAP2", m |-> mm,
                 v |-> grad_v_gamma_TAP2(mm, w, a),
                 h |-> grad_h_gamma_TAP2(mm, w, b)])

\* (grad_v_gamma_TAP3(m, w, a), grad_h_gamma_TAP3(m, w, b))
grad_gamma_TAP3_call ==
    \E mm \in GridMags :
        Returns([kind |-> "grad", fn |-> "grad_gamma_TAP3", m |-> mm,
                 v |-> grad_v_gamma_TAP3(mm, w, a),
                 h |-> grad_h_gamma_TAP3(mm, w, b)])

\* ------------------------------------------------ the HeatCapacity metric
\* init_lr=0.01, in units of 1e-10
MetricInitLr == 100000000
\* tol=1e-4: on whole functional values gam - gam_provisional < 1e-4 is the
\* test gam - gam_provisional < 1
MetricTol == 1
\* max_iters=20
MetricMaxIters == 20

\* HeatCapacity.reset()
HeatCapacity_reset ==
    /\ pc = "idle"
    /\ heat_capacity' = 0
    /\ updates' = <<>>
    /\ UNCHANGED <<pc, caller, model_vars, persistent_samples,
                   gradient_locals, minimizer_locals, ret, history_vars>>
    /\ UNCHANGED bench_vars

\* HeatCapacity.update(update_args) up to the first loop test of the call
\* amodel.heat_capacity(seed=None, init_lr=0.01, tol=1e-4, max_iters=20)
HeatCapacity_update ==
    /\ pc = "idle"
    /\ Len(updates) < MaxUpdates
    /\ HeatCapacityEnter(None, MetricInitLr, MetricTol, MetricMaxIters,
                         "metric")
    /\ UNCHANGED <<metric_vars, bench_vars>>

\* self.heat_capacity += the value heat_capacity returned
HeatCapacity_update_return ==
    /\ pc = "hc_done"
    /\ caller = "metric"
    /\ heat_capacity' = heat_capacity + Negative(gam)
    /\ updates' = Append(updates, Negative(gam))
    /\ ret' = [kind |-> "None"]
    /\ pc' = "idle"
    /\ caller' = "none"
    /\ NoMinimizerLocals
    /\ UNCHANGED <<model_vars, persistent_samples, gradient_locals,
                   history_vars>>
    /\ UNCHANGED bench_vars

\* HeatCapacity.value()
HeatCapacity_value ==
    Returns([kind |-> "float", fn |-> "value", value |-> heat_capacity])

\* -------------------------------------------------------- gradient_util
\* An entry of a Gradient stands for what be.accumulate(func, entry) or
\* be.fold(func, entry) makes of it under the func of the call.
EntryValues == {0, 1, 4}

\* Gradient = namedtuple("Gradient", ["layers", "weights"])
Gradient(ls, ws) == [layers |-> ls, weights |-> ws]

SeqsUpTo(lo, hi) == UNION {[1..n -> EntryValues] : n \in lo..hi}

\* the Gradient objects of the calls: as many weight entries as there are
\* layers to connect
Gradients ==
    {Gradient(ls, ws) : ls \in SeqsUpTo(1, MaxEntries),
                        ws \in SeqsUpTo(0, MaxEntries - 1)}

\* for e in entries: result = be.accumulate(func, e)   (or be.fold)
RECURSIVE loop_over(_, _)
loop_over(result, entries) ==
    IF entries = <<>> THEN result
    ELSE loop_over(Head(entries), Tail(entries))

\* grad_fold(func, grad)
grad_fold(grad) == loop_over(loop_over(0, grad.layers), grad.weights)

\* grad_accumulate(func, grad)
grad_accumulate(grad) == loop_over(loop_over(0, grad.layers), grad.weights)

\* grad_magnitude(grad): sqrt(num / n), kept as the fraction under the root
grad_magnitude(grad) ==
    LET n == Len(grad.layers) + Len(grad.weights)
    IN [sqrt_num |-> grad_accumulate(grad), sqrt_den |-> n]

\* gu.grad_fold(func, grad)
grad_fold_call ==
    \E grad \in Gradients :
        Returns([kind |-> "float", fn |-> "grad_fold", grad |-> grad,
                 value |-> grad_fold(grad)])

\* gu.grad_accumulate(func, grad)
grad_accumulate_call ==
    \E grad \in Gradients :
        Returns([kind |-> "float", fn |-> "grad_accumulate", grad |-> grad,
                 value |-> grad_accumulate(grad)])

\* gu.grad_magnitude(grad)
grad_magnitude_call ==
    \E grad \in Gradients :
        Returns([kind |-> "float", fn |-> "grad_magnitude", grad |-> grad,
                 value |-> grad_magnitude(grad)])

\* ------------------------------------------------ the metric classes
MetricNames == {"ReconstructionError", "EnergyDistance", "EnergyGap",
                "EnergyZscore", "HeatCapacity"}

\* self.downsample = 100
Downsample == 100

\* x / y and math.sqrt(x), kept as written: neither is the identity
Divide(x, y) == [num |-> x, den |-> y]
math_sqrt(x) == [sqrt |-> x]

\* __init__ of the class of that name
Metric(name) ==
    CASE name = "ReconstructionError" ->
             [name |-> name, mean_square_error |-> 0, norm |-> 0]
      [] name = "EnergyDistance" ->
             [name |-> name, energy_distance |-> 0, norm |-> 0,
              downsample |-> Downsample]
      [] name = "EnergyGap" ->
             [name |-> name, energy_gap |-> 0, norm |-> 0]
      [] name = "EnergyZscore" ->
             [name |-> name, data_mean |-> 0, random_mean |-> 0,
              random_mean_square |-> 0]
      [] name = "HeatCapacity" ->
             [name |-> name, heat_capacity |-> 0, downsample |-> Downsample]

\* what the backend and the model make of the update_args of one update:
\* len(minibatch.units[0]) and be.tsum(...) of the squared differences;
\* be.fast_energy_distance(...); be.mean of the marginal free energy of the
\* minibatch, of the random samples, and of its square on the random samples
\* (never below the square of the mean); amodel.heat_capacity(...)
UpdateArgs(name) ==
    CASE name = "ReconstructionError" ->
             {[len |-> 0, tsum |-> 0], [len |-> 1, tsum |-> 0],
              [len |-> 2, tsum |-> 1], [len |-> 2, tsum |-> 4]}
      [] name = "EnergyDistance" ->
             {[distance |-> d] : d \in {0, 1, 3}}
      [] name = "EnergyGap" ->
             {[data |-> x, random |-> y] : x \in {0 - 2, 0}, y \in {0, 1}}
      [] name = "EnergyZscore" ->
             {[data |-> x, random |-> y, random_sq |-> y * y + e] :
                  x \in {0 - 2, 0}, y \in {0, 1}, e \in {0, 1}}
      [] name = "HeatCapacity" ->
             {[heat_capacity |-> Negative(g)] : g \in GamVals}

\* a reset that leaves norm as it is
reset_keeps_norm(self) ==
    CASE self.name = "ReconstructionError" ->
             [self EXCEPT !.mean_square_error = 0]
      [] self.name = "EnergyDistance" ->
             [self EXCEPT !.energy_distance = 0]
      [] self.name = "EnergyGap" ->
             [self EXCEPT !.energy_gap = 0]
      [] self.name = "EnergyZscore" ->
             [self EXCEPT !.data_mean = 0, !.random_mean = 0,
                          !.random_mean_square = 0]
      [] self.name = "HeatCapacity" ->
             [self EXCEPT !.heat_capacity = 0]

\* reset(self) of each class
reset_of(self) ==
    CASE self.name = "ReconstructionError" ->
             [self EXCEPT !.mean_square_error = 0, !.norm = 0]
      [] self.name = "EnergyDistance" ->
             [self EXCEPT !.energy_distance = 0, !.norm = 0]
      [] self.name = "EnergyGap" ->
             [self EXCEPT !.energy_gap = 0, !.norm = 0]
      [] self.name = "EnergyZscore" ->
             [self EXCEPT !.data_mean = 0, !.random_mean = 0,
                          !.random_mean_square = 0]
      [] self.name = "HeatCapacity" ->
             [self EXCEPT !.heat_capacity = 0]

\* update(self, update_args) of each class
update_of(self, x) ==
    CASE self.name = "ReconstructionError" ->
             [self EXCEPT !.norm = @ + x.len,
                          !.mean_square_error = @ + x.tsum]
      [] self.name = "EnergyDistance" ->
             [self EXCEPT !.norm = @ + 1,
                          !.energy_distance = @ + x.distance]
      [] self.name = "EnergyGap" ->
             [self EXCEPT !.norm = @ + 1,
                          !.energy_gap = (@ + x.data) - x.random]
      [] self.name = "EnergyZscore" ->
             [self EXCEPT !.data_mean = @ + x.data,
                          !.random_mean = @ + x.random,
                          !.random_mean_square = @ + x.random_sq]
      [] self.name = "HeatCapacity" ->
             [self EXCEPT !.heat_capacity = @ + x.heat_capacity]

PyNone(fn) == [kind |-> "None", fn |-> fn]
PyFloat(fn, x) == [kind |-> "float", fn |-> fn, value |-> x]

\* value(self) of each class
value_of(self) ==
    CASE self.name = "ReconstructionError" ->
             IF self.norm # 0
             THEN PyFloat("value",
                          math_sqrt(Divide(self.mean_square_error, self.norm)))
             ELSE PyNone("value")
      [] self.name = "EnergyDistance" ->
             IF self.norm # 0
             THEN PyFloat("value", Divide(self.energy_distance, self.norm))
             ELSE PyNone("value")
      [] self.name = "EnergyGap" ->
             IF self.norm # 0
             THEN PyFloat("value", Divide(self.energy_gap, self.norm))
             ELSE PyNone("value")
      [] self.name = "EnergyZscore" ->
             IF self.random_mean_square # 0
             THEN PyFloat("value",
                          Divide(self.data_mean - self.random_mean,
                                 math_sqrt(self.random_mean_square)))
             ELSE PyNone("value")
      [] self.name = "HeatCapacity" ->
             PyFloat("value", self.heat_capacity)

\* a method call on the metric object: it touches nothing of the model
MethodCall(name) ==
    /\ pc = "idle"
    /\ Len(history) < MaxOps
    /\ history' = Append(history, name)
    /\ UNCHANGED <<pc, caller, model_vars, persistent_samples,
                   gradient_locals, minimizer_locals, history_vars,
                   metric_vars, twin, race>>

\* metric.reset()
reset ==
    /\ MethodCall("reset")
    /\ metric' = reset_of(metric)
    /\ ret' = PyNone("reset")

\* metric.update(update_args)
update ==
    /\ MethodCall("update")
    /\ \E x \in UpdateArgs(metric.name) : metric' = update_of(metric, x)
    /\ ret' = PyNone("update")

\* metric.value()
value ==
    /\ MethodCall("value")
    /\ metric' = metric
    /\ ret' = value_of(metric)

\* ------------------------------------------- the two loops side by side
\* The locals of one descent routine entered on seed sd, where g is the value
\* of the functional at sd: its = 0, lr = init_lr, gam = gamma(m).
LoopLocals(sd, il, tl, mx, g) ==
    [pc |-> "loop", m |-> sd, gam |-> g, lr |-> InitLr(il), its |-> 0,
     tol |-> tl, max_iters |-> mx, m_provisional |-> None,
     gam_provisional |-> 0, branch |-> "none", ret |-> [kind |-> "running"]]

\* the while test and, when it holds, one iteration: mp is the clipped
\* provisional point, gp the functional's value there, r what the loop body
\* makes of them
Advance(L, mp, gp, r) ==
    IF L.pc # "loop" THEN L
    ELSE IF ~LoopGuard(L.its, L.max_iters) THEN [L EXCEPT !.pc = "done"]
    ELSE [L EXCEPT !.its = @ + 1, !.m_provisional = mp,
                   !.gam_provisional = gp, !.m = r.m, !.gam = r.gam,
                   !.lr = r.lr, !.branch = r.branch,
                   !.pc = IF r.brk THEN "done" ELSE "loop"]

OnlyTwin ==
    UNCHANGED <<pc, caller, model_vars, persistent_samples, gradient_locals,
                minimizer_locals, ret, history_vars, metric_vars,
                object_vars, race>>

\* minimize_gamma_GD and minimize_GD entered on the same seed, init_lr, tol
\* and max_iters, with the same functional and gradient pair
side_by_side_call ==
    /\ pc = "idle"
    /\ twin = None
    /\ \E sd \in ExtSeeds \cup {RandomSeed(rp) : rp \in RandPairs},
          il \in InitLrs, tl \in Tols, mx \in MaxItersArgs, g \in GamVals :
            twin' = [minimize_gamma_GD |-> LoopLocals(sd, il, tl, mx, g),
                     minimize_GD |-> LoopLocals(sd, il, tl, mx, g)]
    /\ OnlyTwin

\* each loop makes its while test and, if it holds, one iteration: from the
\* same point with the same lr the gradient pair gives both the same step,
\* and at the same provisional point the functional gives both the same value
side_by_side_step ==
    /\ twin # None
    /\ twin.minimize_gamma_GD.pc = "loop" \/ twin.minimize_GD.pc = "loop"
    /\ \E st1 \in StepPairs, st2 \in StepPairs, gp1 \in GamVals, gp2 \in GamVals :
        LET L1 == twin.minimize_gamma_GD
            L2 == twin.minimize_GD
            mp1 == Provisional(L1.m, st1)
            mp2 == Provisional(L2.m, st2)
            r1 == minimize_gamma_GD_body(L1.m, L1.gam, L1.lr, mp1, gp1, L1.tol)
            r2 == minimize_GD_body(L2.m, L2.gam, L2.lr, mp2, gp2, L2.tol)
        IN /\ (L1.m = L2.m /\ L1.lr = L2.lr) => st2 = st1
           /\ mp1 = mp2 => gp2 = gp1
           /\ mp1 = L1.m => gp1 = L1.gam
           /\ mp2 = L2.m => gp2 = L2.gam
           /\ twin' = [minimize_gamma_GD |-> Advance(L1, mp1, gp1, r1),
                       minimize_GD |-> Advance(L2, mp2, gp2, r2)]
    /\ OnlyTwin

\* return (m, gam) in gibbs_free_energy; return -minimize_GD(...) in
\* heat_capacity
side_by_side_return ==
    /\ twin # None
    /\ twin.minimize_gamma_GD.pc = "done" /\ twin.minimize_GD.pc = "done"
    /\ twin' = [minimize_gamma_GD |->
                    [twin.minimize_gamma_GD EXCEPT
                        !.pc = "returned",
                        !.ret = [kind |-> "tuple", m |-> twin.minimize_gamma_GD.m,
                                 gam |-> twin.minimize_gamma_GD.gam]],
                minimize_GD |->
                    [twin.minimize_GD EXCEPT
                        !.pc = "returned",
                        !.ret = [kind |-> "float", fn |-> "heat_capacity",
                                 value |-> Negative(twin.minimize_GD.gam)]]]
    /\ OnlyTwin

\* --------------------------------------------- gradient calls as threads
\* Two calls of gradient on one model, each statement of lines 321-340 a
\* step of its thread; the minimization inside gibbs_free_energy works on
\* locals only, so it is one step that reads the slot and yields a result.
Threads == {1, 2}

\* the magnetizations a minimization can return
ResultMags == {Magnetization(EPS, ONE - EPS), Magnetization(ONE - EPS, EPS)}

\* the locals of a gradient call; from and m_emf record which thread wrote
\* the magnetization bound to m and the EMF that was returned with it
Frame ==
    [pc |-> "idle", s |-> 0, EMF |-> 0, best_EMF |-> 0, m |-> None,
     res |-> None, from |-> 0, m_emf |-> 0]

\* no thread has started; writer and slot_emf record, per slot, the thread
\* that wrote it last and the EMF returned with what it wrote
NoThreads(n) ==
    [frame |-> [t \in Threads |-> Frame], overlap |-> FALSE,
     writer |-> [i \in 1..n |-> 0], slot_emf |-> [i \in 1..n |-> 0]]

Running(f) == f.pc \notin {"idle", "returned", "raised"}

OnlyThreads ==
    UNCHANGED <<pc, caller, model_vars, gradient_locals, minimizer_locals,
                ret, history_vars, metric_vars, object_vars, twin>>

\* EMF = 1e6; m = None; best_EMF = 1e7; the for loop at its first slot
thread_call(t) ==
    /\ race.frame[t].pc = "idle"
    /\ Len(persistent_samples) > 0
    /\ race' = [race EXCEPT
                   !.frame[t] = [@ EXCEPT !.pc = "call", !.s = 1,
                                          !.EMF = EMFInit,
                                          !.best_EMF = BestEMFInit,
                                          !.m = None],
                   !.overlap = @ \/ \E u \in Threads \ {t} :
                                        Running(race.frame[u])]
    /\ UNCHANGED persistent_samples
    /\ OnlyThreads

\* self.gibbs_free_energy(self.persistent_samples[s], ...) evaluated
thread_minimize(t) ==
    /\ race.frame[t].pc = "call"
    /\ \E mres \in ResultMags, e \in GamVals :
           race' = [race EXCEPT !.frame[t] =
                        [@ EXCEPT !.pc = "store",
                                  !.res = [m |-> mres, gam |-> e]]]
    /\ UNCHANGED persistent_samples
    /\ OnlyThreads

\* (self.persistent_samples[s], EMF) = the pair returned
thread_store(t) ==
    LET f == race.frame[t]
    IN /\ f.pc = "store"
       /\ persistent_samples' = SlotStore(persistent_samples, f.s, f.res.m)
       /\ race' = [race EXCEPT
                      !.frame[t] = [@ EXCEPT !.pc = "test", !.EMF = f.res.gam,
                                             !.res = None],
                      !.writer[f.s] = t,
                      !.slot_emf[f.s] = f.res.gam]
       /\ OnlyThreads

\* the end of one pass of the for loop
NextSlot(f) ==
    [f EXCEPT !.s = @ + 1,
              !.pc = IF f.s < Len(persistent_samples) THEN "call" ELSE "grad"]

\* the test without the assignment best_EMF = EMF
test_keeps_best(t) ==
    LET f == race.frame[t]
    IN /\ f.pc = "test"
       /\ race' = [race EXCEPT !.frame[t] =
                      IF Better(f.EMF, f.best_EMF)
                      THEN [f EXCEPT !.pc = "select"]
                      ELSE NextSlot(f)]
       /\ UNCHANGED persistent_samples
       /\ OnlyThreads

\* if EMF < best_EMF: best_EMF = EMF
thread_test(t) ==
    LET f == race.frame[t]
    IN /\ f.pc = "test"
       /\ race' = [race EXCEPT !.frame[t] =
                      IF Better(f.EMF, f.best_EMF)
                      THEN [f EXCEPT !.best_EMF = f.EMF, !.pc = "select"]
                      ELSE NextSlot(f)]
       /\ UNCHANGED persistent_samples
       /\ OnlyThreads

\* m = self.persistent_samples[s]
thread_select(t) ==
    LET f == race.frame[t]
    IN /\ f.pc = "select"
       /\ race' = [race EXCEPT !.frame[t] =
                      NextSlot([f EXCEPT !.m = persistent_samples[f.s],
                                         !.from = race.writer[f.s],
                                         !.m_emf = race.slot_emf[f.s]])]
       /\ UNCHANGED persistent_samples
       /\ OnlyThreads

\* dw_EMF = grad_w_gamma(m,w,a,b) and the rest of gradient, on the selected m
thread_finish(t) ==
    LET f == race.frame[t]
    IN /\ f.pc = "grad"
       /\ race' = [race EXCEPT !.frame[t].pc =
                      IF f.m = None THEN "raised" ELSE "returned"]
       /\ UNCHANGED persistent_samples
       /\ OnlyThreads

Next ==
    \/ set_terms
    \/ raise_propagate
    \/ gibbs_free_energy_call
    \/ minimize_gamma_GD_iter
    \/ minimize_gamma_GD_exit
    \/ gibbs_free_energy_return
    \/ gradient_call
    \/ gradient_minimize
    \/ gradient_store
    \/ gradient_finish
    \/ heat_capacity_call
    \/ minimize_GD_iter
    \/ minimize_GD_exit
    \/ heat_capacity_return

Spec == Init /\ [][Next]_vars

\* a constructed model with any of the parameters, and calls of its
\* functionals and of their gradients
FnInit ==
    /\ \E p \in FnParams : TAP_rbm(3, 0, <<1, 2, MaxIters>>, p)
    /\ HeatCapacity
    /\ NoBench

FnNext ==
    \/ gamma_MF_call
    \/ gamma_TAP2_call
    \/ gamma_TAP3_call
    \/ grad_gamma_MF_call
    \/ grad_gamma_TAP2_call
    \/ grad_gamma_TAP3_call

FnSpec == FnInit /\ [][FnNext]_vars

\* the calls of Next on a model with one slot and any of the parameters
ParamInit ==
    /\ \E p \in {q \in FnParams : q[1] = 2} :
           TAP_rbm(2, 1, <<1000000000, 2, MaxIters>>, p)
    /\ HeatCapacity
    /\ NoBench

ParamSpec == ParamInit /\ [][Next]_vars

\* a constructed model and a constructed metric, and the calls of the metric
\* and of heat_capacity
MetricInit ==
    /\ \E p \in CtorParams : TAP_rbm(3, 0, <<1, 2, MaxIters>>, p)
    /\ HeatCapacity
    /\ NoBench

MetricNext ==
    \/ HeatCapacity_reset
    \/ HeatCapacity_update
    \/ HeatCapacity_update_return
    \/ HeatCapacity_value
    \/ heat_capacity_call
    \/ minimize_GD_iter
    \/ minimize_GD_exit
    \/ heat_capacity_return

MetricSpec == MetricInit /\ [][MetricNext]_vars

\* calls of the gradient_util functions on Gradient objects
GradInit == MetricInit

GradNext ==
    \/ grad_fold_call
    \/ grad_accumulate_call
    \/ grad_magnitude_call

GradSpec == GradInit /\ [][GradNext]_vars

\* a constructed metric of any of the five classes, and its method calls
ObjectInit ==
    /\ \E p \in CtorParams : TAP_rbm(3, 0, <<1, 2, MaxIters>>, p)
    /\ HeatCapacity
    /\ \E name \in MetricNames : metric = Metric(name)
    /\ history = <<>>
    /\ twin = None
    /\ race = None

ObjectNext ==
    \/ reset
    \/ update
    \/ value

ObjectSpec == ObjectInit /\ [][ObjectNext]_vars

\* a constructed model, and the two descent routines run side by side
TwinInit == MetricInit

TwinNext ==
    \/ side_by_side_call
    \/ side_by_side_step
    \/ side_by_side_return

TwinSpec == TwinInit /\ [][TwinNext]_vars

\* a model with a pool of persistent samples, and two threads calling
\* gradient on it
RaceInit ==
    /\ \E n \in 1..MaxPool : \E p \in CtorParams :
           /\ TAP_rbm(3, n, <<1, 2, MaxIters>>, p)
           /\ race = NoThreads(n)
    /\ HeatCapacity
    /\ metric = None /\ history = <<>>
    /\ twin = None

RaceNext ==
    \E t \in Threads :
        \/ thread_call(t)
        \/ thread_minimize(t)
        \/ thread_store(t)
        \/ thread_test(t)
        \/ thread_select(t)
        \/ thread_finish(t)

RaceSpec == RaceInit /\ [][RaceNext]_vars

TypeOK ==
    /\ pc \in {"idle", "no_object", "gd_loop", "gd_done", "g_call", "g_grad", "raise",
               "hc_loop", "hc_done"}
    /\ its \in 0..MaxIters

\* ----------------------------------------------------------------- claims
InLoop == pc \in {"gd_loop", "hc_loop"}
InMinimizer == pc \in {"gd_loop", "gd_done", "hc_loop", "hc_done"}
AtDone == pc \in {"gd_done", "hc_done"}

\* a step of either descent loop: one iteration, or the failing loop test
LoopStep == InLoop /\ InMinimizer'

\* C1: in both descent loops the functional value of the current point never
\* increases: every step of the loop leaves gam or lowers it, and the point
\* is replaced only together with a value that is not greater.
C1_Monotone ==
    [][LoopStep => /\ gam' <= gam
                   /\ (m' # m => m' = m_provisional' /\ gam' = gam_provisional')
                   /\ (gam' # gam => gam' = gam_provisional')]_vars

\* C1 witness: an iteration accepted a point with a strictly lower value
C1_Witness ==
    /\ InMinimizer /\ branch = "accept" /\ m = m_provisional
    /\ gam = gam_provisional /\ tol > 0 /\ its >= 1

Slots == 1..Len(persistent_samples)

\* C2: with a pool of N > 0 slots, the magnetization gradient goes on with
\* after the N minimizer runs is defined, and is the content of a slot whose
\* EMF is the lowest of the N estimates of this call.
C2_LowestSelected ==
    (pc = "g_grad" /\ Len(persistent_samples) > 0) =>
        /\ gm # None
        /\ \E j \in Slots :
              /\ persistent_samples[j] = gm
              /\ \A k \in Slots : emfs[j] <= emfs[k]

\* the number of minimizations slot j has taken when the model is at pc
ExpectedChain(j) ==
    IF /\ caller = "gradient" /\ s >= 1 /\ j >= s
       /\ (pc \in {"gd_loop", "gd_done"} \/ s > 1)
    THEN gcalls - 1
    ELSE gcalls

\* C3: every gradient call that passes the check of terms runs the minimizer
\* once per slot in slot order, seeded with the content the slot held before
\* the call (a random seed for None), and overwrites every slot: slot j has
\* taken as many minimizations as there were calls, and none is None after
\* the first call.
C3_Chains ==
    /\ \A j \in Slots :
          /\ chain[j] = ExpectedChain(j)
          /\ (chain[j] = 0) = (persistent_samples[j] = None)
    /\ (caller = "gradient" /\ pc = "gd_loop" /\ its = 0 /\ s >= 1) =>
          IF persistent_samples[s] = None
          THEN m \in {RandomSeed(rp) : rp \in RandPairs}
          ELSE m = persistent_samples[s]

\* C3 witness: two gradient calls are over, both slots hold chained results
C3_Witness ==
    /\ pc = "idle" /\ gcalls = 2 /\ Len(persistent_samples) = 2
    /\ chain = <<2, 2>> /\ persistent_samples[1] # persistent_samples[2]

\* C4: the pool keeps the length given at construction.
C4_PoolSize == Len(persistent_samples) = num_persistent_samples

\* C4 witness: a heat_capacity call returned after gradient calls on a pool
C4_Witness ==
    /\ pc = "idle" /\ ret.kind = "float" /\ gcalls >= 1
    /\ num_persistent_samples >= 1

\* C5: an order outside {1,2,3} is a ValueError, never clamped or accepted:
\* the constructor raises on it, gibbs_free_energy raises on it and the
\* minimizer never runs with it, and gradient on a model whose terms is
\* outside {1,2,3} raises before a slot is stored and returns no gradient.
C5_ConfigError ==
    /\ pc = "no_object" => ret.kind = "ValueError" /\ ret.terms \notin {1, 2, 3}
    /\ ret.kind = "TAP_rbm" => ret.terms \in {1, 2, 3} /\ terms = ret.terms
    /\ pc \in {"gd_loop", "gd_done"} => terms_arg \in {1, 2, 3}
    /\ pc = "raise" => /\ ret.kind = "ValueError"
                       /\ terms_arg \notin {1, 2, 3}
                       /\ ret.terms = terms_arg
    /\ (caller = "gradient" /\ terms \notin {1, 2, 3}) =>
          /\ pc \in {"g_call", "raise"}
          /\ s <= 1
          /\ \A j \in Slots : chain[j] = gcalls

\* C5 witness: gradient on a model with a filled pool raised ValueError
C5_Witness ==
    /\ pc = "raise" /\ caller = "gradient" /\ gcalls >= 1
    /\ Len(persistent_samples) >= 1

RECURSIVE Pow2(_)
Pow2(n) == IF n = 0 THEN 1 ELSE 2 * Pow2(n - 1)

\* C6: a descent loop runs at most max_iters iterations, a halving iteration
\* counting like any other, and it is left in one of three ways only: its
\* reached max_iters, a halving took lr below 1e-10, or the decrease of the
\* last iteration was in [0, tol).
C6_Bounded ==
    InMinimizer =>
        /\ its <= max_iters
        /\ lr[2] <= Pow2(its)
        /\ AtDone =>
              \/ its = max_iters
              \/ branch = "halve" /\ lr[1] < LrFloor * lr[2]
              \/ /\ branch = "stop"
                 /\ 0 <= gam - gam_provisional
                 /\ gam - gam_provisional < tol

\* C6 witness: max_iters >= 2 iterations, every one of them a halving
C6_Witness ==
    /\ AtDone /\ its = max_iters /\ its >= 2 /\ lr[2] = Pow2(its)
    /\ lr[1] >= LrFloor * lr[2]

\* an iteration of minimize_gamma_GD that found a decrease in [0, tol)
ConvergingIter ==
    /\ pc = "gd_loop" /\ its' = its + 1
    /\ 0 <= gam - gam_provisional' /\ gam - gam_provisional' < tol

\* C7 as claimed: when minimize_gamma_GD stops on a decrease in [0, tol), the
\* magnetization it returns is the provisional point of that iteration.
C7_AdoptsProvisional ==
    (pc = "gd_done" /\ branch = "stop") => m = m_provisional

\* C7 amended: an iteration with a decrease in [0, tol) stops the loop and
\* keeps the current point and value; gibbs_free_energy returns that pair.
C7_KeepsCurrent ==
    [][/\ ConvergingIter => pc' = "gd_done" /\ m' = m /\ gam' = gam
       /\ (pc = "gd_done" /\ caller = "user") => ret'.m = m /\ ret'.gam = gam
      ]_vars

\* C7 witness: the loop stopped on a lower provisional point it did not take
C7_Witness ==
    /\ pc = "gd_done" /\ branch = "stop" /\ m_provisional # m
    /\ gam_provisional < gam

\* C8 as claimed: with tol > 0 an iteration whose provisional value equals
\* the current value does not stop the loop, which goes on to max_iters.
C8_EqualContinues ==
    (pc = "gd_done" /\ tol > 0 /\ its >= 1 /\ gam_provisional = gam) =>
        its = max_iters

\* C8 amended: an iteration whose provisional value equals the current value
\* stops the loop when tol > 0, the current point kept; when tol <= 0 the
\* provisional point is accepted and the loop goes on.
C8_EqualStops ==
    [][(pc = "gd_loop" /\ its' = its + 1 /\ gam_provisional' = gam) =>
          IF tol > 0
          THEN pc' = "gd_done" /\ m' = m /\ gam' = gam /\ lr' = lr
          ELSE pc' = "gd_loop" /\ m' = m_provisional' /\ gam' = gam /\ lr' = lr
      ]_vars

\* C8 witness: the loop stopped before max_iters on an equal value
C8_Witness ==
    /\ pc = "gd_done" /\ branch = "stop" /\ tol > 0
    /\ gam_provisional = gam /\ its < max_iters

InOpen(mm) == \A i \in 1..2 : 0 < mm[i] /\ mm[i] < ONE
InClip(mm) == \A i \in 1..2 : EPS <= mm[i] /\ mm[i] <= ONE - EPS
InSeedRange(mm) == \A i \in 1..2 : SeedOffset <= mm[i] /\ mm[i] < ONE - SeedOffset

\* C9: every magnetization a functional is evaluated on, the seed at loop
\* entry and every provisional point, has all components strictly inside
\* (0,1): random seeds lie in [0.005, 0.995), provisional points in
\* [eps, 1-eps].
C9_Domain ==
    /\ InMinimizer => InOpen(m) /\ (its >= 1 => InClip(m_provisional))
    /\ (caller = "gradient" /\ pc = "gd_loop" /\ its = 0
          /\ (s = 0 \/ persistent_samples[s] = None)) => InSeedRange(m)

\* C9 witness: a second gradient call, seeded from the pool, evaluated a
\* provisional point that was clipped to eps
C9_Witness ==
    /\ caller = "gradient" /\ pc = "gd_loop" /\ its >= 1 /\ gcalls >= 2
    /\ m_provisional[1] = EPS /\ m_provisional # m

\* C10 as claimed: after the first iteration of gibbs_free_energy the current
\* magnetization lies within [eps, 1-eps] (seeds within [eps, 1-eps] never
\* leave it, so this speaks of the seeds outside it).
C10_ClippedAfterFirst ==
    (pc \in {"gd_loop", "gd_done"} /\ its >= 1) => InClip(m)

\* C10 amended: from a seed inside (0,1) but outside [eps, 1-eps] the loop
\* goes on without an error, every provisional point lies in [eps, 1-eps],
\* and the current magnetization is the unchanged seed until a step is
\* accepted and a point of [eps, 1-eps] from then on.
C10_SeedOrClipped ==
    [][(pc = "gd_loop" /\ its' = its + 1 /\ InOpen(m) /\ ~InClip(m)) =>
          /\ pc' \in {"gd_loop", "gd_done"}
          /\ InClip(m_provisional')
          /\ m' = m \/ (m' = m_provisional' /\ branch' = "accept")
      ]_vars

\* C10 witness: the seed (1 - 1e-7, 1e-7) is still current after an iteration
\* whose provisional point was clipped
C10_Witness ==
    /\ pc \in {"gd_loop", "gd_done"} /\ its >= 1
    /\ m = Magnetization(ONE - 1, 1) /\ InClip(m_provisional)

\* the first iteration of minimize_gamma_GD with tol > 0 from a seed where
\* both gradients are zero: the provisional point is the clipped seed
ZeroGradientFirstIter ==
    /\ pc = "gd_loop" /\ its = 0 /\ its' = 1 /\ tol > 0
    /\ m_provisional' = Provisional(m, <<0, 0>>)

C13_ParamsReadOnly ==
    [][/\ w' = w /\ a' = a /\ b' = b
       /\ (pc # "idle" \/ pc' # "idle") =>
              UNCHANGED <<terms, init_lr_EMF, tolerance_EMF, max_iters_EMF,
                          num_persistent_samples>>
      ]_vars

\* C13 witness: with nonzero parameters, a gradient call filled the slot and
\* a later call ended in an error
C13_Witness ==
    /\ pc = "idle" /\ ret.kind \in {"ValueError", "AttributeError"}
    /\ gcalls >= 1 /\ persistent_samples[1] # None
    /\ w # 0 /\ a # 0 /\ b # 0

\* one iteration of either descent loop
LoopIter == InLoop /\ its' = its + 1

\* C14: in one minimizer call lr starts at init_lr and is never increased: an
\* iteration with gam - gam' < 0 halves lr and keeps m and gam, any other
\* iteration keeps lr, so after k rejected steps lr = init_lr / 2^k; the loop
\* is left for lr exactly when a halving took lr below 1e-10; the next call
\* starts from its own init_lr again.
C14_LrOnlyHalves ==
    [][/\ (~InMinimizer /\ InMinimizer') =>
              /\ lr'[2] = 1 /\ rejected' = 0
              /\ lr'[1] \in InitLrs
              /\ caller' = "gradient" => lr' = <<init_lr_EMF, 1>>
       /\ LoopIter =>
              /\ lr'[1] = lr[1]
              /\ lr'[2] = Pow2(rejected')
              /\ IF gam - gam_provisional' < 0
                 THEN /\ lr'[2] = 2 * lr[2] /\ rejected' = rejected + 1
                      /\ m' = m /\ gam' = gam
                      /\ AtDone' = (lr'[1] < LrFloor * lr'[2])
                 ELSE /\ lr' = lr /\ rejected' = rejected
                      /\ AtDone' => branch' = "stop"
       /\ (InMinimizer /\ InMinimizer' /\ ~LoopIter) => lr' = lr
      ]_vars

\* C14 witness: after two rejected steps lr is a quarter of init_lr = 0.1,
\* and the run goes on
C14_Witness ==
    /\ InLoop /\ rejected = 2 /\ lr = <<1000000000, 4>> /\ branch = "halve"

\* C15: when minimize_gamma_GD is left because max_iters is used up or
\* because lr fell below 1e-10, no error is raised and the pair (m, gam) that
\* gibbs_free_energy returns has the lowest value among the seed and all the
\* provisional points of the call.
C15_BestReturned ==
    (pc = "gd_done" /\ branch # "stop") =>
        /\ ret.kind = "running"
        /\ gam = lowest
        /\ its >= 1 => gam <= gam_provisional
        /\ its = max_iters \/ (branch = "halve" /\ lr[1] < LrFloor * lr[2])

\* C15 witness: max_iters = 2 was used up by an accepted step and a rejected
\* one; the accepted point is the one kept
C15_Witness ==
    /\ pc = "gd_done" /\ branch = "halve" /\ its = max_iters /\ its = 2
    /\ rejected = 1 /\ gam < gam_provisional /\ lr[1] >= LrFloor * lr[2]

\* C16: gradient on a two-layer model returns a Gradient with one entry per
\* layer and one per weight, none of them None: weights[0] is dw plus
\* grad_w_gamma_k(m) for the configured order k, layers[0] is da plus -m.v and
\* layers[1] is db plus -m.h, m being the magnetization the minimizer step
\* selected.
C16_GradientEntries ==
    ret.kind \in {"Gradient", "AttributeError"} =>
        /\ ret.kind = "Gradient"
        /\ DOMAIN ret.grad.layers = 1..2
        /\ DOMAIN ret.grad.weights = 1..1
        /\ \A l \in 1..2 : ret.grad.layers[l] # None
        /\ ret.grad.weights[1] # None
        /\ ret.grad.weights[1] =
              ParamsWeights(Plus("dw", [fn |-> GradWFor(terms), m |-> ret.m,
                                        w |-> w]))
        /\ ret.grad.layers[1] = ParamsBernoulli(Plus("da", 0 - ret.m[1]))
        /\ ret.grad.layers[2] = ParamsBernoulli(Plus("db", 0 - ret.m[2]))

\* C17: with an empty pool a gradient call runs the minimizer exactly once,
\* with no seed (gradient's m is still None when it calls, so the run starts
\* from a fresh draw in [0.005, 0.995)), the pool stays empty whatever was
\* called, and nothing a call produced is kept for a later one.
C17_EmptyPool ==
    num_persistent_samples = 0 =>
        /\ persistent_samples = <<>>
        /\ caller = "gradient" =>
              /\ s = 0
              /\ pc \in {"g_call", "gd_loop", "gd_done", "raise"} =>
                    gm = None /\ emfs = <<>>
              /\ pc = "g_grad" => Len(emfs) = 1 /\ gm # None
              /\ (pc = "gd_loop" /\ its = 0) => InSeedRange(m)
        /\ caller # "gradient" => gm = None /\ emfs = <<>>

\* C17 witness: the second gradient call on a model with an empty pool is
\* about to return
C17_Witness ==
    /\ num_persistent_samples = 0 /\ pc = "g_grad" /\ gcalls = 2
    /\ Len(emfs) = 1 /\ persistent_samples = <<>>

GammaNames == {"gamma_MF", "gamma_TAP2", "gamma_TAP3"}

\* C11: with W = 0, gamma_MF(m), gamma_TAP2(m) and gamma_TAP3(m) are the
\* same value, for every magnetization m and all biases a and b: whichever
\* of the three was called, what it returned is the value of each of them.
C11_ZeroWeightsAgree ==
    (ret.kind = "float" /\ ret.fn \in GammaNames /\ w = 0) =>
        /\ ret.value = gamma_MF(ret.m)
        /\ ret.value = gamma_TAP2(ret.m)
        /\ ret.value = gamma_TAP3(ret.m)

RECURSIVE SumOf(_)
SumOf(q) == IF q = <<>> THEN 0 ELSE q[1] + SumOf(Tail(q))

\* a step in which heat_capacity hands its result to whoever called it
HeatCapacityReturns == pc = "hc_done" /\ pc' = "idle"

\* C18: heat_capacity returns the negative of the functional value its
\* descent loop stopped at; the running value of the HeatCapacity metric is
\* the sum of the results of the update calls since construction or the last
\* reset (0 when there were none) and is what value() returns; an update
\* makes one heat_capacity call, seeded by a fresh random draw, and adds that
\* call's result and nothing else, and no other call changes the running
\* value except reset, which makes it 0.
C18_MetricSumsResults ==
    /\ heat_capacity = 0
    /\ [][/\ heat_capacity' = SumOf(updates')
          /\ (HeatCapacityReturns /\ caller = "user") =>
                 ret' = [kind |-> "float", fn |-> "heat_capacity",
                         value |-> 0 - gam]
          /\ (HeatCapacityReturns /\ caller = "metric") =>
                 /\ heat_capacity' = heat_capacity + (0 - gam)
                 /\ Len(updates') = Len(updates) + 1
          /\ (pc = "idle" /\ caller' = "metric") =>
                 /\ \E rp \in RandPairs : m' = RandomSeed(rp)
                 /\ InSeedRange(m')
                 /\ heat_capacity' = heat_capacity
          /\ (pc' = "idle" /\ ret'.kind = "float" /\ ret'.fn = "value") =>
                 ret'.value = SumOf(updates)
          /\ (caller # "metric" /\ heat_capacity' # heat_capacity) =>
                 heat_capacity' = 0 /\ updates' = <<>>
          /\ (caller = "metric" /\ ~HeatCapacityReturns) =>
                 heat_capacity' = heat_capacity]_vars

\* C18 witness: value() returned the sum of two different update results,
\* the first of them not zero
C18_Witness ==
    /\ pc = "idle" /\ ret.kind = "float" /\ ret.fn = "value"
    /\ Len(updates) = 2 /\ updates[1] # 0 /\ updates[2] # updates[1]
    /\ ret.value = updates[1] + updates[2]

\* the functional a pair of closed-form gradients belongs to
GammaOf(name, mm) ==
    CASE name = "grad_gamma_MF" -> gamma_MF(mm)
      [] name = "grad_gamma_TAP2" -> gamma_TAP2(mm)
      [] name = "grad_gamma_TAP3" -> gamma_TAP3(mm)

\* the central difference quotient over the two neighbouring eighths
CentralDiff(lo, hi) == ((hi - lo) * GridOne) \div 2

Abs(x) == IF x < 0 THEN 0 - x ELSE x

\* a tenth: above the error of the difference quotient on the eighths, which
\* is less than 0.06 for the parameters of FnParams
DiffTol == FnOne \div 10

\* C19: for each order, grad_v_gamma_k and grad_h_gamma_k are the partial
\* derivatives of gamma_k: what a call of the pair returned at m agrees with
\* the central finite difference of gamma_k at m in v and in h, for every m
\* strictly inside (0,1) and all W, a, b.
C19_GradientsMatchFiniteDifference ==
    ret.kind = "grad" =>
        LET mm == ret.m
            dv == CentralDiff(GammaOf(ret.fn, Magnetization(mm[1] - 1, mm[2])),
                              GammaOf(ret.fn, Magnetization(mm[1] + 1, mm[2])))
            dh == CentralDiff(GammaOf(ret.fn, Magnetization(mm[1], mm[2] - 1)),
                              GammaOf(ret.fn, Magnetization(mm[1], mm[2] + 1)))
        IN /\ Abs(ret.v - dv) <= DiffTol
           /\ Abs(ret.h - dh) <= DiffTol

GradUtilNames == {"grad_fold", "grad_accumulate", "grad_magnitude"}

\* every entry of a Gradient, layers first
Entries(grad) == grad.layers \o grad.weights

\* the Gradient with one layer entry or one weight entry replaced
WithLayer(grad, i, c) == [grad EXCEPT !.layers[i] = c]
WithWeight(grad, j, c) == [grad EXCEPT !.weights[j] = c]

\* what the function of that name returns
GradUtil(name, grad) ==
    CASE name = "grad_fold" -> grad_fold(grad)
      [] name = "grad_accumulate" -> grad_accumulate(grad)
      [] name = "grad_magnitude" -> grad_magnitude(grad)

\* C20: grad_accumulate and grad_fold return a result accumulated over every
\* layer entry and every weight entry, so grad_magnitude is the root of the
\* sum of the entries' mean squares over n = len(layers) + len(weights);
\* replacing the contribution of any one entry by a different one changes
\* what each of the three returns.
C20_EveryEntryCounts ==
    (ret.kind = "float" /\ ret.fn \in GradUtilNames) =>
        LET grad == ret.grad
        IN /\ ret.fn = "grad_accumulate" => ret.value = SumOf(Entries(grad))
           /\ ret.fn = "grad_magnitude" =>
                  ret.value = [sqrt_num |-> SumOf(Entries(grad)),
                               sqrt_den |-> Len(Entries(grad))]
           /\ \A i \in 1..Len(grad.layers), c \in EntryValues :
                  c # grad.layers[i] =>
                      GradUtil(ret.fn, WithLayer(grad, i, c)) # ret.value
           /\ \A j \in 1..Len(grad.weights), c \in EntryValues :
                  c # grad.weights[j] =>
                      GradUtil(ret.fn, WithWeight(grad, j, c)) # ret.value

Last(q) == q[Len(q)]

\* the last call was the first one, or came right after a reset
OnFresh == Len(history) = 1 \/ (Len(history) > 1 /\ history[Len(history) - 1] = "reset")

\* reset() leaves the object as __init__ made it
ResetsToFresh ==
    (history # <<>> /\ Last(history) = "reset") => metric = Metric(metric.name)

\* value() of a fresh object: None, and 0 for HeatCapacity
FreshValue ==
    (history # <<>> /\ Last(history) = "value" /\ OnFresh) =>
        ret = IF metric.name = "HeatCapacity"
              THEN PyFloat("value", 0) ELSE PyNone("value")

\* the accumulated total of a class that has a norm
Total(self) ==
    CASE self.name = "ReconstructionError" -> self.mean_square_error
      [] self.name = "EnergyDistance" -> self.energy_distance
      [] self.name = "EnergyGap" -> self.energy_gap

Normed(names) ==
    history # <<>> /\ Last(history) = "value" /\ metric.name \in names
        /\ metric.norm > 0

\* C21 as stated: reset() returns a metric of any of the five classes to its
\* constructed state; value() of a fresh object is None (0 for
\* HeatCapacity); and for ReconstructionError, EnergyDistance and EnergyGap
\* value() is the accumulated total divided by the accumulated norm once the
\* norm is positive.
C21_TotalOverNorm ==
    /\ ResetsToFresh
    /\ FreshValue
    /\ Normed({"ReconstructionError", "EnergyDistance", "EnergyGap"}) =>
           ret = PyFloat("value", Divide(Total(metric), metric.norm))

\* C21 amended: as stated for reset() and for the fresh value(); with a
\* positive norm value() is total / norm for EnergyDistance and EnergyGap,
\* and the square root of total / norm for ReconstructionError.
C21_RootForReconstruction ==
    /\ ResetsToFresh
    /\ FreshValue
    /\ Normed({"EnergyDistance", "EnergyGap"}) =>
           ret = PyFloat("value", Divide(Total(metric), metric.norm))
    /\ Normed({"ReconstructionError"}) =>
           ret = PyFloat("value",
                         math_sqrt(Divide(Total(metric), metric.norm)))

\* C21 witness: a ReconstructionError was updated, reset, updated again with
\* a batch of two, and value() returned the root of that batch's ratio alone
C21_Witness ==
    /\ history = <<"update", "reset", "update", "value">>
    /\ metric.name = "ReconstructionError"
    /\ metric.norm = 2 /\ metric.mean_square_error = 4
    /\ ret = PyFloat("value", math_sqrt(Divide(4, 2)))

\* C22: throughout the descent loop of gibbs_free_energy and at its return,
\* gam is the value at the current m of the functional of the configured
\* order, which is gamma_MF for order 1, gamma_TAP2 for order 2 and gamma_MF
\* for order 3, the steps of order 3 being taken along the order-3
\* gradients: the functional and the gradients are bound once at entry; an
\* iteration either keeps m and gam or adopts m_provisional together with
\* gam_provisional, the functional's value there; the failing loop test and
\* the return change neither, and the pair returned is (m, gam).
C22_GamIsFunctionalAtM ==
    [][/\ pc' \in {"gd_loop", "gd_done"} =>
              /\ terms_arg' = 1 =>
                     gamma' = "gamma_MF" /\ grad_gamma' = "grad_gamma_MF"
              /\ terms_arg' = 2 =>
                     gamma' = "gamma_TAP2" /\ grad_gamma' = "grad_gamma_TAP2"
              /\ terms_arg' = 3 =>
                     gamma' = "gamma_MF" /\ grad_gamma' = "grad_gamma_TAP3"
       /\ pc = "gd_loop" =>
              /\ gamma' = gamma /\ grad_gamma' = grad_gamma
              /\ terms_arg' = terms_arg
              /\ \/ m' = m /\ gam' = gam
                 \/ /\ its' = its + 1
                    /\ m' = m_provisional' /\ gam' = gam_provisional'
              /\ (its' = its + 1 /\ m_provisional' = m) =>
                     gam_provisional' = gam
       /\ (pc = "gd_done" /\ pc' = "idle" /\ caller = "user") =>
              ret' = [kind |-> "tuple", m |-> m, gam |-> gam]
       /\ (pc = "gd_done" /\ caller = "gradient") =>
              /\ EMF' = gam
              /\ IF s = 0 THEN gm' = m ELSE persistent_samples'[s] = m]_vars

\* C22 witness: an order-3 call is about to return a point it moved to, with
\* the mean-field functional bound as gamma and the order-3 gradients as the
\* step direction
C22_Witness ==
    /\ pc = "gd_done" /\ caller = "user" /\ terms_arg = 3
    /\ gamma = "gamma_MF" /\ grad_gamma = "grad_gamma_TAP3"
    /\ branch = "accept" /\ its = MaxIters
    /\ m = m_provisional /\ gam = gam_provisional

\* C23: run side by side on the same seed, init_lr, tol and max_iters with
\* the same functional and gradient pair, minimize_GD and minimize_gamma_GD
\* are in step: after every iteration they have taken the same branch and
\* hold the same lr, iteration count, point and value, they leave the loop
\* together, and then gibbs_free_energy returns (m, gam) where heat_capacity
\* returns -gam and no magnetization.
C23_SameStateMachine ==
    twin # None =>
        LET L1 == twin.minimize_gamma_GD
            L2 == twin.minimize_GD
        IN /\ L1.pc = L2.pc
           /\ L1.branch = L2.branch
           /\ L1.lr = L2.lr /\ L1.its = L2.its
           /\ L1.m = L2.m /\ L1.gam = L2.gam
           /\ L1.pc = "returned" =>
                  /\ L1.ret = [kind |-> "tuple", m |-> L1.m, gam |-> L1.gam]
                  /\ L2.ret = [kind |-> "float", fn |-> "heat_capacity",
                               value |-> 0 - L1.gam]

\* C23 witness: both routines returned after a halved step and then an
\* accepted one, heat_capacity with the negative of a value that is not zero
C23_Witness ==
    /\ twin # None
    /\ twin.minimize_GD.pc = "returned"
    /\ twin.minimize_gamma_GD.pc = "returned"
    /\ twin.minimize_GD.its = MaxIters
    /\ twin.minimize_GD.lr[2] = 2
    /\ twin.minimize_GD.branch = "accept"
    /\ twin.minimize_gamma_GD.ret.gam = 1
    /\ twin.minimize_GD.ret.value = 0 - 1

\* the thread is past its loop with a magnetization selected
Selected(f) == f.pc \in {"grad", "returned"} /\ f.m # None

\* C24: nothing guards the pool against a second gradient call. When the two
\* calls are serialized, the m a call selects was written into the slot by
\* that call, with the EMF the call compared and kept as best_EMF.
C24_SerializedSelectsOwn ==
    ~race.overlap =>
        \A t \in Threads :
            Selected(race.frame[t]) =>
                /\ race.frame[t].from = t
                /\ race.frame[t].m_emf = race.frame[t].best_EMF

\* C24 witness: with the two calls interleaved, thread 1 returned after using
\* as its selected m a magnetization that thread 2 wrote into the slot, whose
\* EMF is not the best_EMF thread 1 compared
C24_Witness ==
    /\ race.overlap
    /\ race.frame[1].pc = "returned"
    /\ race.frame[1].from = 2
    /\ race.frame[1].m_emf # race.frame[1].best_EMF

\* the iterations of the running call that adopted their provisional point
AcceptedSteps == (its - rejected) - (IF branch = "stop" THEN 1 ELSE 0)

\* C25: the descent routine modifies the seed it is given: when
\* gibbs_free_energy, seeded by gradient with the Magnetization stored in
\* slot s, has finished its loop after at least one accepted step, that
\* stored object holds the values the routine arrived at.
C25_SeedHoldsResult ==
    (/\ pc = "gd_done" /\ caller = "gradient" /\ s >= 1
     /\ persistent_samples[s] # None
     /\ AcceptedSteps >= 1) =>
        persistent_samples[s] = m

====
